---- MODULE Spec2Model ----
(***************************************************************************)
(* Attribute search of the address-search plugin: the toolbar dialog       *)
(* (AddressSearchToolbar.py) and the stand-alone dialog                    *)
(* (AddressSearchDialog.py).  Text is a sequence of one-character strings, *)
(* so that escaping, trimming and clause building are computed character   *)
(* by character as the Python code computes them.                          *)
(***************************************************************************)
EXTENDS Integers, Sequences, FiniteSets, TLC

VARIABLES
    variant,      \* which module's dialog is in use: "toolbar" or "dialog"
    present,      \* host: the layers of the project
    schema,       \* host: vector layer -> index of its field list in SchemaPool
    selection,    \* host: vector layer -> set of selected feature ids
    activeLayer,  \* host: iface.activeLayer()
    bulk,         \* host: how many numbered files the folder holds besides FixedEntries
    folders,      \* host: the folders that exist
    ui,           \* the widgets of the toolbar dialog
    store,        \* QSettings, group AddressSearchToolbarFieldSelect
    dl,           \* the widgets of the stand-alone dialog
    msgs,         \* the messages shown by the handler that ran last
    lastRun       \* what the handler that ran last saw and did

vars == <<variant, bulk, folders, present, schema, selection, activeLayer, ui, store, dl, msgs, lastRun>>

\* ------------------------------------------------------------------ bounds

\* How many entries of TermPool the user may type into a text box.
NumTerms == 3

\* Feature ids of a vector layer are 1..MaxFid.
MaxFid == 1

\* The longest text typed into edit_filter when the number test is explored.
MaxTyped == 4

\* How many numbered files the folder may come to hold besides FixedEntries.
MaxBulk == 500

\* ------------------------------------------------------------------- text

\* Python's None / "" for a clause: both are falsy, and falsiness is all the
\* code tests (`if a and b`, `a or b`, `if not final_expr`).
Absent == <<>>

\* What a user may type: nothing, a word with a quote and a LIKE wildcard
\* after a blank, a number, a blank, a signed decimal.
TermPool ==
    << <<>>,
       <<" ", "a", "'", "%">>,
       <<"1", "2">>,
       <<" ">>,
       <<"-", "4", ".", "5">> >>

Terms == { TermPool[i] : i \in 1..NumTerms }

RECURSIVE Replace(_, _, _)
\* str.replace(c, r) for a one-character c.
Replace(s, c, r) ==
    IF s = <<>> THEN <<>>
    ELSE (IF Head(s) = c THEN r ELSE <<Head(s)>>) \o Replace(Tail(s), c, r)

RECURSIVE LStrip(_)
LStrip(s) ==
    IF s # <<>> /\ Head(s) = " " THEN LStrip(Tail(s)) ELSE s

RECURSIVE RStrip(_)
RStrip(s) ==
    IF s # <<>> /\ s[Len(s)] = " " THEN RStrip(SubSeq(s, 1, Len(s) - 1)) ELSE s

\* str.strip()
Strip(s) == RStrip(LStrip(s))

RECURSIVE Join(_, _)
\* sep.join(parts)
Join(parts, sep) ==
    IF parts = <<>> THEN <<>>
    ELSE IF Len(parts) = 1 THEN parts[1]
    ELSE parts[1] \o sep \o Join(Tail(parts), sep)

RECURSIVE Count(_, _)
Count(s, c) ==
    IF s = <<>> THEN 0
    ELSE (IF Head(s) = c THEN 1 ELSE 0) + Count(Tail(s), c)

Digits == {"0", "1", "2", "3", "4", "5", "6", "7", "8", "9"}

RECURSIVE AllDigits(_)
AllDigits(s) ==
    s = <<>> \/ (Head(s) \in Digits /\ AllDigits(Tail(s)))

\* Position of the first "." of s, or 0.
FirstDot(s) ==
    IF \E i \in 1..Len(s) : s[i] = "."
    THEN CHOOSE i \in 1..Len(s) : s[i] = "." /\ \A j \in 1..(i - 1) : s[j] # "."
    ELSE 0

\* One or more digits, then optionally "." and one or more digits.
UnsignedNumber(s) ==
    LET d == FirstDot(s) IN
    IF d = 0 THEN s # <<>> /\ AllDigits(s)
    ELSE /\ d > 1
         /\ d < Len(s)
         /\ AllDigits(SubSeq(s, 1, d - 1))
         /\ AllDigits(SubSeq(s, d + 1, Len(s)))

\* The number test with the pattern [+-]?\d+\.?\d*, which takes no digit
\* after the point for a number too.
IsNumberBarePoint(s) ==
    LET u == IF s # <<>> /\ Head(s) \in {"+", "-"} THEN Tail(s) ELSE s
        d == FirstDot(u)
    IN  IF d = 0 THEN u # <<>> /\ AllDigits(u)
        ELSE d > 1 /\ AllDigits(SubSeq(u, 1, d - 1)) /\ AllDigits(SubSeq(u, d + 1, Len(u)))

\* _is_number: re.fullmatch(r"[+-]?\d+(\.\d+)?", s or "")
IsNumber(s) ==
    IF s # <<>> /\ Head(s) \in {"+", "-"} THEN UnsignedNumber(Tail(s))
    ELSE UnsignedNumber(s)

UpperLetters ==
    <<"A", "B", "C", "D", "E", "F", "G", "H", "I", "J", "K", "L", "M",
      "N", "O", "P", "Q", "R", "S", "T", "U", "V", "W", "X", "Y", "Z">>

LowerLetters ==
    <<"a", "b", "c", "d", "e", "f", "g", "h", "i", "j", "k", "l", "m",
      "n", "o", "p", "q", "r", "s", "t", "u", "v", "w", "x", "y", "z">>

LowerChar(c) ==
    IF \E i \in 1..Len(UpperLetters) : UpperLetters[i] = c
    THEN LowerLetters[CHOOSE i \in 1..Len(UpperLetters) : UpperLetters[i] = c]
    ELSE c

\* str.lower()
Lower(s) == [i \in 1..Len(s) |-> LowerChar(s[i])]

\* ------------------------------------------------------- the host's layers

\* A field of a layer: its name, the provider's type name and its QVariant
\* type.
FieldAddr ==
    [name |-> <<"a", "d", "d", "r">>,
     typeName |-> <<"S", "t", "r", "i", "n", "g">>,
     qtype |-> "String"]

FieldId ==
    [name |-> <<"i", "d">>,
     typeName |-> <<"I", "n", "t", "e", "g", "e", "r">>,
     qtype |-> "Int"]

FieldNote ==
    [name |-> <<"n", "o", "t", "e">>,
     typeName |-> <<"t", "e", "x", "t">>,
     qtype |-> "String"]

\* The field lists a layer of the project may have: none, numeric only,
\* two text fields around a number.
SchemaPool ==
    << <<>>,
       <<FieldId>>,
       <<FieldAddr, FieldId, FieldNote>> >>

SchemaIds == 1..Len(SchemaPool)

Fids == 1..MaxFid

\* The layers a project may hold: two vector layers and one raster layer.
VectorLayers == {"L1", "L2"}

RasterLayers == {"R1"}

LayerIds == VectorLayers \cup RasterLayers

NoLayer == "none"

\* layer.name(); "" is the text of the combo's first, empty entry
LayerName(l) ==
    IF l = "L1" THEN "roads" ELSE IF l = "L2" THEN "parcels" ELSE "ortho"

\* Position of the layer's name under sort(key=lambda x: x.name().lower()).
NameRank(l) == IF l = "L2" THEN 1 ELSE IF l = "L1" THEN 2 ELSE 0

\* The type names run_search takes for text fields.
StringTypeNames ==
    { <<"s", "t", "r", "i", "n", "g">>,
      <<"t", "e", "x", "t">>,
      <<"v", "a", "r", "c", "h", "a", "r">>,
      <<"c", "h", "a", "r">>,
      <<"n", "c", "h", "a", "r">>,
      <<"n", "v", "a", "r", "c", "h", "a", "r">> }

RECURSIVE StringFields(_)
\* [f for f in layer.fields() if <type name is a text type>] (toolbar)
StringFields(fields) ==
    IF fields = <<>> THEN <<>>
    ELSE (IF Lower(Head(fields).typeName) \in StringTypeNames
          THEN <<Head(fields)>> ELSE <<>>) \o StringFields(Tail(fields))

RECURSIVE QStringFields(_)
\* [f.name() for f in layer.fields() if f.type() == QVariant.String] (dialog)
QStringFields(fields) ==
    IF fields = <<>> THEN <<>>
    ELSE (IF Head(fields).qtype = "String"
          THEN <<Head(fields).name>> ELSE <<>>) \o QStringFields(Tail(fields))

Names(fields) == [i \in 1..Len(fields) |-> fields[i].name]

\* ------------------------------------ clause building, AddressSearchDialog.py

\* _escape_like of the dialog: ' becomes ''
EscapeQuote(s) == Replace(s, "'", <<"'", "'">>)

\* lower("name")
LowerField(name) ==
    <<"l", "o", "w", "e", "r", "(", "\"">> \o name \o <<"\"", ")">>

\* lower("name") LIKE lower('<pre>text<post>')
LikeClause(name, pre, text, post) ==
    LowerField(name) \o <<" ", "L", "I", "K", "E", " ">>
        \o <<"l", "o", "w", "e", "r", "(", "'">> \o pre \o text \o post \o <<"'", ")">>

\* lower("name") = lower('text')
EqLowerClause(name, text) ==
    LowerField(name) \o <<" ", "=", " ">>
        \o <<"l", "o", "w", "e", "r", "(", "'">> \o text \o <<"'", ")">>

OrSep == <<" ", "O", "R", " ">>

\* "(" + " OR ".join(parts) + ")" if parts else None
OrGroup(parts) ==
    IF parts = <<>> THEN Absent ELSE <<"(">> \o Join(parts, OrSep) \o <<")">>

\* _build_or_contains_expr(fields, text); fields are names
BuildOrContainsExpr(fields, text) ==
    LET esc == EscapeQuote(text) IN
    IF esc = <<>> THEN Absent
    ELSE OrGroup([i \in 1..Len(fields) |-> LikeClause(fields[i], <<"%">>, esc, <<"%">>)])

\* The entries of match_combo, in order, and of join_combo.
MatchLabels == <<"contains", "exact", "prefix">>

JoinLabels == <<"and", "or">>

\* The refinement clause built as a contains clause whatever the match mode.
BuildRefineExprAlwaysContains(fields, text, mode_label) ==
    BuildOrContainsExpr(fields, text)

\* _build_refine_expr(fields, text, mode_label)
BuildRefineExpr(fields, text, mode_label) ==
    LET esc == EscapeQuote(text) IN
    IF esc = <<>> THEN Absent
    ELSE IF mode_label = "exact"
         THEN OrGroup([i \in 1..Len(fields) |-> EqLowerClause(fields[i], esc)])
    ELSE IF mode_label = "prefix"
         THEN OrGroup([i \in 1..Len(fields) |-> LikeClause(fields[i], <<>>, esc, <<"%">>)])
    ELSE OrGroup([i \in 1..Len(fields) |-> LikeClause(fields[i], <<"%">>, esc, <<"%">>)])

\* _combine_expr putting a clause that stands alone in a group of its own.
CombineExprGroupsAlone(a, b, join_label) ==
    IF a # Absent /\ b # Absent
    THEN <<"(">> \o a \o <<" ">>
             \o (IF join_label = "and" THEN <<"A", "N", "D">> ELSE <<"O", "R">>)
             \o <<" ">> \o b \o <<")">>
    ELSE IF a # Absent THEN <<"(">> \o a \o <<")">>
    ELSE IF b # Absent THEN <<"(">> \o b \o <<")">>
    ELSE Absent

\* _combine_expr(a, b, join_label)
CombineExpr(a, b, join_label) ==
    IF a # Absent /\ b # Absent
    THEN LET op == IF join_label = "and" THEN <<"A", "N", "D">> ELSE <<"O", "R">>
         IN  <<"(">> \o a \o <<" ">> \o op \o <<" ">> \o b \o <<")">>
    ELSE IF a # Absent THEN a ELSE b

\* ----------------------------------- clause building, AddressSearchToolbar.py

\* _escape_like of the toolbar: \ % _ get a backslash; quotes are untouched
EscapeLike(s) ==
    Replace(Replace(Replace(s, "\\", <<"\\", "\\">>), "%", <<"\\", "%">>),
            "_", <<"\\", "_">>)

\* "field"
Quoted(field) == <<"\"">> \o field \o <<"\"">>

\* The free-word clause with a sub-clause for every field, whatever its type.
FreeClauseOverAllFields(fields, free) ==
    OrGroup([i \in 1..Len(fields) |->
                LikeClause(fields[i].name, <<"%">>, EscapeLike(free), <<"%">>)])

\* The free-word clause of the toolbar's run_search for the layer's fields.
FreeClause(fields, free) ==
    LET free_esc == EscapeLike(free)
        strs == StringFields(fields)
    IN  OrGroup([i \in 1..Len(strs) |->
                    LikeClause(strs[i].name, <<"%">>, free_esc, <<"%">>)])

\* (field_q <cmp> text)
CompareClause(field, cmp, text) ==
    <<"(">> \o Quoted(field) \o <<" ">> \o cmp \o <<" ">> \o text \o <<")">>

\* The refinement clause with the equals branch putting any term between
\* quotes as it is typed.
FilterClauseQuotesAsTyped(field, op_idx, filt) ==
    IF op_idx = 0
    THEN CompareClause(field, <<"=">>, <<"'">> \o filt \o <<"'">>)
    ELSE IF op_idx = 1 THEN CompareClause(field, <<">">>, filt)
    ELSE IF op_idx = 2 THEN CompareClause(field, <<"<">>, filt)
    ELSE <<"(">> \o <<"l", "o", "w", "e", "r", "(">> \o Quoted(field) \o <<")">>
             \o <<" ", "L", "I", "K", "E", " ">>
             \o <<"l", "o", "w", "e", "r", "(", "'", "%">> \o EscapeLike(filt)
             \o <<"%", "'", ")", ")">>

\* The refinement clause of the toolbar's run_search; op_idx is the index of
\* combo_op: 0 "=", 1 ">", 2 "<", 3 contains.  The caller has checked that
\* ">" and "<" get a number.
FilterClause(field, op_idx, filt) ==
    IF op_idx = 0
    THEN IF IsNumber(filt)
         THEN CompareClause(field, <<"=">>, filt)
         ELSE CompareClause(field, <<"=">>,
                            <<"'">> \o Replace(filt, "'", <<"'", "'">>) \o <<"'">>)
    ELSE IF op_idx = 1 THEN CompareClause(field, <<">">>, filt)
    ELSE IF op_idx = 2 THEN CompareClause(field, <<"<">>, filt)
    ELSE <<"(">> \o <<"l", "o", "w", "e", "r", "(">> \o Quoted(field) \o <<")">>
             \o <<" ", "L", "I", "K", "E", " ">>
             \o <<"l", "o", "w", "e", "r", "(", "'", "%">> \o EscapeLike(filt)
             \o <<"%", "'", ")", ")">>

\* The final expression with the joiner AND whatever combo_logic shows.
FinalExprAndOnly(expr_free, expr_filter, logic_and) ==
    IF expr_free # Absent /\ expr_filter # Absent
    THEN <<"(">> \o expr_free \o <<")", " ", "A", "N", "D", " ", "(">>
             \o expr_filter \o <<")">>
    ELSE IF expr_free # Absent THEN expr_free ELSE expr_filter

\* The final expression of the toolbar's run_search.
FinalExpr(expr_free, expr_filter, logic_and) ==
    IF expr_free # Absent /\ expr_filter # Absent
    THEN <<"(">> \o expr_free \o <<")">>
             \o (IF logic_and THEN <<" ", "A", "N", "D", " ">> ELSE <<" ", "O", "R", " ">>)
             \o <<"(">> \o expr_filter \o <<")">>
    ELSE IF expr_free # Absent THEN expr_free ELSE expr_filter

\* ------------------------------------------- toolbar dialog: widgets, store

\* edit_ext.setText(...) of _build_ui
DefaultExt ==
    <<"p", "d", "f", ",", " ", "p", "n", "g", ",", " ", "j", "p", "g", ",", " ",
      "j", "p", "e", "g", ",", " ", "t", "i", "f", ",", " ", "t", "i", "f", "f",
      ",", " ", "x", "l", "s", "x", ",", " ", "x", "l", "s", ",", " ",
      "d", "o", "c", "x", ",", " ", "d", "o", "c", ",", " ",
      "p", "p", "t", "x", ",", " ", "p", "p", "t">>

\* The widgets as _build_ui leaves them.  A combo's index is 0-based, -1 when
\* it has no current entry.
BuiltUi ==
    [open |-> TRUE,
     timer |-> FALSE,
     free |-> <<>>,
     adv_visible |-> TRUE,
     toggle_checked |-> FALSE,
     logic |-> 0,
     use_filter |-> FALSE,
     field_items |-> <<>>,
     field_idx |-> -1,
     op |-> 0,
     filter_text |-> <<>>,
     folder |-> <<>>,
     ext |-> DefaultExt,
     layer_items |-> <<>>,
     layer_idx |-> -1,
     last_layer_id |-> NoLayer,
     tbl_cols |-> 0,
     tbl_rows |-> <<>>,
     list_files |-> <<>>]

\* combo_field.currentText()
CurrentField(u) ==
    IF u.field_idx >= 0 THEN u.field_items[u.field_idx + 1] ELSE <<>>

\* combo_layer.currentText()
CurrentLayerText(u) ==
    IF u.layer_idx >= 0 THEN u.layer_items[u.layer_idx + 1] ELSE ""

\* QComboBox.findText: 0-based index of the first entry equal to text, or -1.
FindText(items, text) ==
    IF \E i \in 1..Len(items) : items[i] = text
    THEN (CHOOSE i \in 1..Len(items) :
              items[i] = text /\ \A j \in 1..(i - 1) : items[j] # text) - 1
    ELSE -1

\* _save_state: what is written under each key.
SaveState(u) ==
    [free |-> u.free,
     adv_expanded |-> u.toggle_checked,
     logic |-> u.logic,
     use_filter |-> u.use_filter,
     field |-> CurrentField(u),
     op |-> u.op,
     filter_text |-> u.filter_text,
     folder |-> u.folder,
     ext |-> u.ext,
     layer_name |-> CurrentLayerText(u)]

\* A dialog and the store, threaded through the calls of one handler.
Pair(u, st) == [u |-> u, st |-> st]

Saved(u) == Pair(u, SaveState(u))

\* _set_advanced_collapsed setting the button and leaving the section as it
\* is.
SetAdvancedCollapsedButtonOnly(u, collapsed) ==
    [u EXCEPT !.toggle_checked = ~collapsed]

\* _set_advanced_collapsed(collapsed)
SetAdvancedCollapsed(u, collapsed) ==
    [u EXCEPT !.adv_visible = ~collapsed, !.toggle_checked = ~collapsed]

\* _get_selected_layer: the vector layer, among the layers of the project,
\* named by combo_layer.
GetSelectedLayer(layers, u) ==
    LET name == CurrentLayerText(u) IN
    IF name # "" /\ \E l \in layers \cap VectorLayers : LayerName(l) = name
    THEN CHOOSE l \in layers \cap VectorLayers : LayerName(l) = name
    ELSE NoLayer

\* layer.fields()
FieldsOf(l) == SchemaPool[schema[l]]

\* on_layer_changed: remembers the layer, refills combo_field keeping its
\* current entry when the layer has it, and saves.
OnLayerChanged(layers, p) ==
    LET layer == GetSelectedLayer(layers, p.u)
        u1 == IF layer # NoLayer THEN [p.u EXCEPT !.last_layer_id = layer] ELSE p.u
    IN  IF layer = NoLayer
        THEN Saved([u1 EXCEPT !.field_items = <<>>, !.field_idx = -1])
        ELSE LET keep == CurrentField(u1)
                 items == Names(FieldsOf(layer))
                 found == IF keep # <<>> THEN FindText(items, keep) ELSE -1
                 idx == IF found >= 0 THEN found
                        ELSE IF items # <<>> THEN 0 ELSE -1
             IN  Saved([u1 EXCEPT !.field_items = items, !.field_idx = idx])

\* The names of the vector layers among the layers of the project, sorted.
SortedLayerNames(layers) ==
    LET ls == layers \cap VectorLayers
        ordered == CHOOSE q \in [1..Cardinality(ls) -> ls] :
                       /\ \A i, j \in 1..Cardinality(ls) :
                              i < j => NameRank(q[i]) < NameRank(q[j])
    IN  [i \in 1..Cardinality(ls) |-> LayerName(ordered[i])]

\* refresh_layers, the project holding layers
RefreshLayers(layers, p) ==
    LET current == CurrentLayerText(p.u)
        items == <<"">> \o SortedLayerNames(layers)
        found == IF current # "" THEN FindText(items, current) ELSE -1
        idx == IF found >= 0 THEN found ELSE 0
    IN  OnLayerChanged(layers,
                       Pair([p.u EXCEPT !.layer_items = items, !.layer_idx = idx], p.st))

\* setText, setChecked or setCurrentIndex of the widget w, whose change
\* signal is connected to _save_state: emitted only when the value changes.
SetWidget(p, w, v) ==
    IF p.u[w] = v THEN p ELSE Saved([p.u EXCEPT ![w] = v])

\* combo_field.setCurrentIndex(i)
SetFieldIdx(p, i) ==
    IF p.u.field_idx = i THEN p ELSE Saved([p.u EXCEPT !.field_idx = i])

\* combo_layer.setCurrentIndex(i) with signals on: on_layer_changed follows
SetLayerIdx(p, i) ==
    IF p.u.layer_idx = i THEN p
    ELSE OnLayerChanged(present, Pair([p.u EXCEPT !.layer_idx = i], p.st))

\* _restore_state from the line that reads "field" on
RestoreField(p) ==
    IF p.st.field # <<>> /\ FindText(p.u.field_items, p.st.field) >= 0
    THEN SetFieldIdx(p, FindText(p.u.field_items, p.st.field))
    ELSE p

\* _restore_state from the line that reads "layer_name" on
RestoreLayer(p) ==
    RestoreField(IF p.st.layer_name # "" /\ FindText(p.u.layer_items, p.st.layer_name) >= 0
                 THEN SetLayerIdx(p, FindText(p.u.layer_items, p.st.layer_name))
                 ELSE p)

\* One line of _restore_state: the widget w is set to what the store holds
\* under the key w when the line runs.
RestoreWidget(p, w) == SetWidget(p, w, p.st[w])

\* adv_expanded = s.value("adv_expanded"); _set_advanced_collapsed(not adv_expanded)
RestoreAdvanced(p) == Pair(SetAdvancedCollapsed(p.u, ~p.st.adv_expanded), p.st)

\* _restore_state up to the line that reads "layer_name"
RestoreEdits(p) ==
    RestoreWidget(
      RestoreWidget(
        RestoreWidget(
          RestoreWidget(
            RestoreWidget(
              RestoreWidget(RestoreAdvanced(RestoreWidget(p, "free")), "logic"),
              "use_filter"),
            "op"),
          "filter_text"),
        "folder"),
      "ext")

\* _restore_state: each value is read from the store when its line runs.
RestoreState(p) == RestoreLayer(RestoreEdits(p))

\* __init__ from the zero-delay timer on: collapsed and unchecked.
EndConstruct(p) ==
    SetWidget(Pair([SetAdvancedCollapsed(p.u, TRUE) EXCEPT !.timer = TRUE], p.st), "use_filter", FALSE)

\* __init__ after _build_ui and the signal connections: refresh_layers,
\* _restore_state, the zero-delay timer, then collapsed and unchecked.
Construct(st) == EndConstruct(RestoreState(RefreshLayers(present, Pair(BuiltUi, st))))

\* ------------------------------------------------ what a handler leaves behind

\* A message: its severity, which text, and the count the text states.
MsgN(sev, text, n) == [sev |-> sev, text |-> text, n |-> n]

Msg(sev, text) == MsgN(sev, text, 0)

\* No handler has run since the widgets or the host last changed.
NoRun ==
    [handler |-> "none",
     outcome |-> "none",
     layer |-> NoLayer,
     free |-> <<>>,
     refine_on |-> FALSE,
     refine_text |-> <<>>,
     op |-> 0,
     join |-> 0,
     fields |-> <<>>,
     expr_free |-> Absent,
     expr_filter |-> Absent,
     final |-> Absent,
     executed |-> FALSE,
     ids |-> {},
     sel_before |-> {},
     rows_before |-> <<>>,
     cols_before |-> 0,
     hits |-> <<>>,
     files_before |-> <<>>,
     found |-> SaveState(BuiltUi),
     removed |-> FALSE,
     selected |-> FALSE,
     zoomed |-> FALSE]

RECURSIVE SortedSeq(_)
\* The features of a request, in id order.
SortedSeq(ids) ==
    IF ids = {} THEN <<>>
    ELSE LET m == CHOOSE x \in ids : \A y \in ids : x <= y
         IN  <<m>> \o SortedSeq(ids \ {m})

\* What the host's query engine may answer to an expression: a parse error,
\* an exception while the features are fetched, or the matching features.
HostAnswers ==
    {[kind |-> "parse_error", ids |-> {}], [kind |-> "raise", ids |-> {}]}
        \cup {[kind |-> "features", ids |-> m] : m \in SUBSET Fids}

\* --------------------------------------- run_search, AddressSearchToolbar.py

\* The criteria test reading the refinement box whether or not it is checked.
NoCriteriaIgnoresCheckbox(free, use_filter, filt) ==
    free = <<>> /\ filt = <<>>

\* if not free and not (use_filter and filt)
NoCriteria(free, use_filter, filt) ==
    free = <<>> /\ ~(use_filter /\ filt # <<>>)

\* if use_filter and filt and field
RefineApplies(use_filter, filt, field) ==
    use_filter /\ filt # <<>> /\ field # <<>>

\* The ">" and "<" branches' test: if not _is_number(filt)
NotComparable(op_idx, filt) ==
    op_idx \in {1, 2} /\ ~IsNumber(filt)

\* What run_search read from the widgets.
Seen(layer, free, refine_on, refine_text, op, join) ==
    [NoRun EXCEPT !.handler = "run_search", !.layer = layer, !.free = free,
                  !.refine_on = refine_on, !.refine_text = refine_text,
                  !.op = op, !.join = join]

Ended(base, outcome) == [base EXCEPT !.outcome = outcome]

\* if not final_expr: warn and return; else the expression is submitted
PlanEnd(base, expr_free, expr_filter, final) ==
    [base EXCEPT !.expr_free = expr_free, !.expr_filter = expr_filter,
                 !.final = final,
                 !.outcome = IF final = Absent THEN "NoExpr" ELSE "Ready"]

\* The refinement step of the toolbar's run_search and the combination.
PlanRefine(base, u, field, filt, expr_free, refine) ==
    IF refine /\ NotComparable(u.op, filt)
    THEN Ended([base EXCEPT !.expr_free = expr_free], "NonNumeric")
    ELSE PlanEnd(base, expr_free,
                 IF refine THEN FilterClause(field, u.op, filt) ELSE Absent,
                 FinalExpr(expr_free,
                           IF refine THEN FilterClause(field, u.op, filt) ELSE Absent,
                           u.logic = 0))

\* The free-word step: a free word that finds no text field ends the search.
PlanFree(base, u, free, field, filt, expr_free) ==
    IF free # <<>> /\ expr_free = Absent
    THEN Ended(base, "NoStringFields")
    ELSE PlanRefine(base, u, field, filt, expr_free,
                    RefineApplies(u.use_filter, filt, field))

\* The layer and criteria steps.
PlanInputs(u, layer, free, field, filt) ==
    IF layer = NoLayer
    THEN Ended(Seen(layer, free, u.use_filter, filt, u.op, u.logic), "NoLayer")
    ELSE IF NoCriteria(free, u.use_filter, filt)
    THEN Ended(Seen(layer, free, u.use_filter, filt, u.op, u.logic), "NoCriteria")
    ELSE PlanFree([Seen(layer, free, u.use_filter, filt, u.op, u.logic)
                       EXCEPT !.fields = FieldsOf(layer)],
                  u, free, field, filt,
                  IF free # <<>> THEN FreeClause(FieldsOf(layer), free) ELSE Absent)

\* run_search up to the expression: the step that ends the search, or
\* "Ready" with the expression to submit.
SearchPlan(u) ==
    PlanInputs(u, GetSelectedLayer(present, u), Strip(u.free), Strip(CurrentField(u)),
               Strip(u.filter_text))

\* The messages of run_search of the toolbar with the return after the
\* zero-match message left out: the success message follows it.
ToolbarMessagesNoReturnOnZero(outcome, ids) ==
    IF outcome \in {"NoLayer", "NoCriteria", "NoStringFields", "NonNumeric", "NoExpr"}
    THEN <<Msg("warning", outcome)>>
    ELSE IF outcome \in {"ParseError", "QueryError"} THEN <<Msg("critical", outcome)>>
    ELSE IF outcome = "ZeroMatches"
    THEN <<Msg("info", outcome), MsgN("success", "Hits", Cardinality(ids))>>
    ELSE <<MsgN("success", outcome, Cardinality(ids))>>

\* The messages pushed on each way run_search of the toolbar ends, in order;
\* the count of the success message is len(ids).
ToolbarMessages(outcome, ids) ==
    IF outcome \in {"NoLayer", "NoCriteria", "NoStringFields", "NonNumeric", "NoExpr"}
    THEN <<Msg("warning", outcome)>>
    ELSE IF outcome \in {"ParseError", "QueryError"} THEN <<Msg("critical", outcome)>>
    ELSE IF outcome = "ZeroMatches" THEN <<Msg("info", outcome)>>
    ELSE <<MsgN("success", outcome, Cardinality(ids))>>

\* _fill_results_table adding the rows below those the table holds.
FillResultsTableAppends(u, layer, feats) ==
    [u EXCEPT !.tbl_cols = 1 + Len(FieldsOf(layer)), !.tbl_rows = u.tbl_rows \o feats]

\* _fill_results_table(layer, feats)
FillResultsTable(u, layer, feats) ==
    [u EXCEPT !.tbl_cols = 1 + Len(FieldsOf(layer)), !.tbl_rows = feats]

\* The way a submitted expression ends, by the host's answer.
Answered(answer) ==
    IF answer.kind = "parse_error" THEN "ParseError"
    ELSE IF answer.kind = "raise" THEN "QueryError"
    ELSE IF answer.ids = {} THEN "ZeroMatches"
    ELSE "Hits"

\* The run as it stands before the expression is submitted.
Before(plan, sel, rows, cols) ==
    [plan EXCEPT !.sel_before = sel, !.rows_before = rows, !.cols_before = cols]

\* The run after the host has answered.
After(before, answer, outcome) ==
    [before EXCEPT !.outcome = outcome,
                   !.executed = (answer.kind # "parse_error"),
                   !.ids = answer.ids,
                   !.removed = (outcome = "ZeroMatches"),
                   !.selected = (outcome = "Hits"),
                   !.zoomed = (outcome = "Hits")]

\* btn_search.clicked of the toolbar dialog
T_RunSearch ==
    /\ variant = "toolbar"
    /\ ui.open /\ ~ui.timer
    /\ \E plan \in {SearchPlan(ui)} :
         \E before \in {Before(plan,
                               IF plan.layer = NoLayer THEN {}
                               ELSE selection[plan.layer],
                               ui.tbl_rows, ui.tbl_cols)} :
           IF plan.outcome # "Ready"
           THEN /\ msgs' = ToolbarMessages(plan.outcome, {})
                /\ lastRun' = before
                /\ UNCHANGED <<ui, store, selection>>
           ELSE \E answer \in HostAnswers :
                  \E outcome \in {Answered(answer)} :
                    /\ msgs' = ToolbarMessages(outcome, answer.ids)
                    /\ lastRun' = After(before, answer, outcome)
                    /\ IF outcome = "ParseError"
                       THEN UNCHANGED <<ui, store, selection>>
                       ELSE IF outcome = "QueryError"
                       THEN /\ store' = SaveState(ui)
                            /\ UNCHANGED <<ui, selection>>
                       ELSE IF outcome = "ZeroMatches"
                       THEN /\ selection' = [selection EXCEPT ![plan.layer] = {}]
                            /\ ui' = FillResultsTable(ui, plan.layer, <<>>)
                            /\ UNCHANGED store
                       ELSE /\ selection' = [selection EXCEPT ![plan.layer] = answer.ids]
                            /\ ui' = FillResultsTable(ui, plan.layer,
                                                      SortedSeq(answer.ids))
                            /\ store' = SaveState(ui')
    /\ UNCHANGED <<variant, bulk, folders, present, schema, activeLayer, dl>>

\* ---------------------------------------- run_search, AddressSearchDialog.py

\* The widgets of the stand-alone dialog as _build_ui leaves them.
BuiltDialog ==
    [freeword |-> <<>>,
     refine_on |-> FALSE,
     refine_text |-> <<>>,
     match |-> 0,
     join |-> 0]

\* The clauses and their combination.
PlanCombineD(base, free_expr, refine_expr, join_label) ==
    PlanEnd(base, free_expr, refine_expr,
            CombineExpr(free_expr, refine_expr, join_label))

\* The field step ending the search only when a free word finds no text
\* field, as the toolbar's does.
PlanFieldsDForFreeWord(base, d, freeword, refine_text, str_fields) ==
    IF str_fields = <<>> /\ freeword # <<>> THEN Ended(base, "NoStringFields")
    ELSE PlanCombineD(base,
                      IF freeword # <<>>
                      THEN BuildOrContainsExpr(str_fields, freeword) ELSE Absent,
                      IF d.refine_on /\ refine_text # <<>>
                      THEN BuildRefineExpr(str_fields, refine_text,
                                           MatchLabels[d.match + 1])
                      ELSE Absent,
                      JoinLabels[d.join + 1])

\* The field step of the dialog's run_search: no text field ends the search.
PlanFieldsD(base, d, freeword, refine_text, str_fields) ==
    IF str_fields = <<>> THEN Ended(base, "NoStringFields")
    ELSE PlanCombineD(base,
                      IF freeword # <<>>
                      THEN BuildOrContainsExpr(str_fields, freeword) ELSE Absent,
                      IF d.refine_on /\ refine_text # <<>>
                      THEN BuildRefineExpr(str_fields, refine_text,
                                           MatchLabels[d.match + 1])
                      ELSE Absent,
                      JoinLabels[d.join + 1])

\* The layer and criteria steps; type_fails: layer.type() raises.
PlanInputsD(d, layer, type_fails, freeword, refine_text) ==
    IF layer = NoLayer
    THEN Ended(Seen(layer, freeword, d.refine_on, refine_text, d.match, d.join),
               "NoLayer")
    ELSE IF type_fails
    THEN Ended(Seen(layer, freeword, d.refine_on, refine_text, d.match, d.join),
               "TypeUnknown")
    ELSE IF layer \notin VectorLayers
    THEN Ended(Seen(layer, freeword, d.refine_on, refine_text, d.match, d.join),
               "NotVector")
    ELSE IF NoCriteria(freeword, d.refine_on, refine_text)
    THEN Ended(Seen(layer, freeword, d.refine_on, refine_text, d.match, d.join),
               "NoCriteria")
    ELSE PlanFieldsD([Seen(layer, freeword, d.refine_on, refine_text, d.match, d.join)
                          EXCEPT !.fields = FieldsOf(layer)],
                     d, freeword, refine_text, QStringFields(FieldsOf(layer)))

\* run_search up to the expression.
SearchPlanD(d, layer, type_fails) ==
    PlanInputsD(d, layer, type_fails, Strip(d.freeword),
                IF d.refine_on THEN Strip(d.refine_text) ELSE <<>>)

\* The messages pushed on each way run_search of the stand-alone dialog
\* ends, in order.
DialogMessages(outcome, ids) ==
    IF outcome \in {"NoLayer", "TypeUnknown", "NotVector", "NoCriteria",
                    "NoStringFields", "NoExpr"}
    THEN <<Msg("warning", outcome)>>
    ELSE IF outcome = "ParseError" THEN <<Msg("critical", outcome)>>
    ELSE IF outcome = "ZeroMatches" THEN <<Msg("info", outcome)>>
    ELSE <<MsgN("success", outcome, Cardinality(ids))>>

\* search_btn.clicked of the stand-alone dialog.  The handler has no except
\* clause around getFeatures, so the host's answers here are a parse error
\* or features.
D_RunSearch ==
    /\ variant = "dialog"
    /\ \E type_fails \in BOOLEAN :
        /\ type_fails => activeLayer # NoLayer
        /\ \E plan \in {SearchPlanD(dl, activeLayer, type_fails)} :
            \E before \in {Before(plan,
                                  IF plan.layer \in VectorLayers
                                  THEN selection[plan.layer] ELSE {},
                                  <<>>, 0)} :
              IF plan.outcome # "Ready"
              THEN /\ msgs' = DialogMessages(plan.outcome, {})
                   /\ lastRun' = before
                   /\ UNCHANGED selection
              ELSE \E answer \in {a \in HostAnswers : a.kind # "raise"} :
                     \E outcome \in {Answered(answer)} :
                       /\ msgs' = DialogMessages(outcome, answer.ids)
                       /\ lastRun' = After(before, answer, outcome)
                       /\ IF outcome = "ParseError" THEN UNCHANGED selection
                          ELSE selection' =
                                   [selection EXCEPT ![plan.layer] = answer.ids]
    /\ UNCHANGED <<variant, bulk, folders, present, schema, activeLayer, ui, store, dl>>

\* ------------------------------------ run_file_search, AddressSearchToolbar.py

\* hits[:500]
MaxShown == 500

\* The one folder that exists, and what the user may have in edit_folder:
\* nothing, the folder after a blank, a folder that does not exist.
TheFolder == <<"/", "d">>

FolderPool == << <<>>, <<" ", "/", "d">>, <<"/", "x">> >>

\* What the user may have in edit_ext: the default list, nothing, a list with
\* capitals, a leading dot, an empty part and a repeated entry.
ExtPool ==
    << DefaultExt,
       <<>>,
       <<".", "P", "D", "F", ",", " ", ",", "t", "x", "t", ",", "p", "d", "f">> >>

\* os.path.isdir(base)
IsDir(base) == base \in folders

\* What base_path.rglob("*") yields first, in order: the directory of each
\* entry below the folder, its name, and whether it is a regular file.
FixedEntries ==
    << [dir |-> <<>>, name |-> <<"a", "'", "%", "1", "2", ".", "p", "d", "f">>,
        is_file |-> TRUE],
       [dir |-> <<>>, name |-> <<"1", "2", ".", "P", "D", "F">>, is_file |-> TRUE],
       [dir |-> <<>>, name |-> <<"1", "2", ".", "t", "x", "t">>, is_file |-> TRUE],
       [dir |-> <<>>, name |-> <<"a", "'", "%", ".", "p", "d", "f">>, is_file |-> TRUE],
       [dir |-> <<>>, name |-> <<"1", "2", ".", "p", "d", "f", "s">>, is_file |-> FALSE],
       [dir |-> <<"1", "2", ".", "p", "d", "f", "s", "/">>,
        name |-> <<"x", ".", "p", "d", "f">>, is_file |-> TRUE],
       [dir |-> <<>>, name |-> <<"A", "'", "%", ".", "p", "d", "f">>, is_file |-> TRUE],
       [dir |-> <<>>, name |-> <<"-", "4", ".", "5">>, is_file |-> TRUE] >>

DigitChars == <<"0", "1", "2", "3", "4", "5", "6", "7", "8", "9">>

RECURSIVE Decimal(_)
\* str(k) for k >= 0
Decimal(k) ==
    IF k < 10 THEN <<DigitChars[k + 1]>>
    ELSE Decimal(k \div 10) \o <<DigitChars[(k % 10) + 1]>>

\* The k-th numbered file of the folder: 12_<k>.pdf
BulkEntry(k) ==
    [dir |-> <<>>,
     name |-> <<"1", "2", "_">> \o Decimal(k) \o <<".", "p", "d", "f">>,
     is_file |-> TRUE]

\* The length of the traversal of the folder.
NumEntries == Len(FixedEntries) + bulk

\* The i-th entry of the traversal: the fixed entries, then the numbered files.
Entry(i) ==
    IF i <= Len(FixedEntries) THEN FixedEntries[i] ELSE BulkEntry(i - Len(FixedEntries))

RECURSIVE SplitFrom(_, _, _)
\* s.split(sep), with cur the part being read
SplitFrom(s, sep, cur) ==
    IF s = <<>> THEN <<cur>>
    ELSE IF Head(s) = sep THEN <<cur>> \o SplitFrom(Tail(s), sep, <<>>)
    ELSE SplitFrom(Tail(s), sep, Append(cur, Head(s)))

Split(s, sep) == SplitFrom(s, sep, <<>>)

RECURSIVE LStripDots(_)
\* p.lstrip(".")
LStripDots(s) ==
    IF s # <<>> /\ Head(s) = "." THEN LStripDots(Tail(s)) ELSE s

RECURSIVE Dedupe(_, _)
\* for p in parts: if p and p not in out: out.append(p)
Dedupe(parts, out) ==
    IF parts = <<>> THEN out
    ELSE IF Head(parts) # <<>> /\ \A i \in 1..Len(out) : out[i] # Head(parts)
         THEN Dedupe(Tail(parts), Append(out, Head(parts)))
         ELSE Dedupe(Tail(parts), out)

RECURSIVE NormalizedParts(_)
\* [p.strip().lower().lstrip(".") for p in raw.split(",") if p.strip()]
NormalizedParts(parts) ==
    IF parts = <<>> THEN <<>>
    ELSE (IF Strip(Head(parts)) # <<>>
          THEN <<LStripDots(Lower(Strip(Head(parts))))>> ELSE <<>>)
             \o NormalizedParts(Tail(parts))

\* _parse_exts
ParseExts(raw) == Dedupe(NormalizedParts(Split(raw, ",")), <<>>)

\* Path.suffix: from the last dot, unless the name starts or ends with it
Suffix(name) ==
    IF \E i \in 2..(Len(name) - 1) : name[i] = "." /\ \A j \in (i + 1)..Len(name) : name[j] # "."
    THEN LET i == CHOOSE i \in 2..(Len(name) - 1) :
                      name[i] = "." /\ \A j \in (i + 1)..Len(name) : name[j] # "."
         IN  SubSeq(name, i, Len(name))
    ELSE <<>>

\* t in name
Contains(name, t) ==
    \E i \in 0..(Len(name) - Len(t)) : SubSeq(name, i + 1, i + Len(t)) = t

\* if exts and p.suffix.lower().lstrip(".") not in exts: continue
ExtAllowed(name, exts) ==
    exts = <<>> \/ LStripDots(Lower(Suffix(name))) \in {exts[i] : i \in 1..Len(exts)}

\* The test on the name asking for every token whatever the policy.
NameMatchesAll(name, tokens, logic_and) ==
    \A i \in 1..Len(tokens) : Contains(name, tokens[i])

\* The test on the name: one token, or two under AND or OR.
NameMatches(name, tokens, logic_and) ==
    IF Len(tokens) = 1 THEN Contains(name, tokens[1])
    ELSE IF logic_and THEN \A i \in 1..Len(tokens) : Contains(name, tokens[i])
    ELSE \E i \in 1..Len(tokens) : Contains(name, tokens[i])

\* Whether the loop of run_file_search appends the entry to hits.
IsHit(e, tokens, logic_and, exts) ==
    e.is_file /\ ExtAllowed(e.name, exts) /\ NameMatches(e.name, tokens, logic_and)

RECURSIVE HitsIn(_, _, _, _, _)
\* What the loop of run_file_search appends to hits while it goes from the
\* lo-th entry of the traversal to the hi-th: the positions of the entries
\* that match, in traversal order.  The stretch is cut in two so that the
\* evaluation stays shallow for a long traversal.
HitsIn(lo, hi, tokens, logic_and, exts) ==
    IF lo > hi THEN <<>>
    ELSE IF lo = hi
    THEN (IF IsHit(Entry(lo), tokens, logic_and, exts) THEN <<lo>> ELSE <<>>)
    ELSE HitsIn(lo, (lo + hi) \div 2, tokens, logic_and, exts)
             \o HitsIn(((lo + hi) \div 2) + 1, hi, tokens, logic_and, exts)

\* tokens = [kw1 if kw1] + [kw2 if kw2]
Tokens(kw1, kw2) ==
    (IF kw1 # <<>> THEN <<kw1>> ELSE <<>>) \o (IF kw2 # <<>> THEN <<kw2>> ELSE <<>>)

\* The hits shown without a cap.
ShownAll(hits) == hits

\* hits[:500]
Shown500(hits) == SubSeq(hits, 1, IF Len(hits) < MaxShown THEN Len(hits) ELSE MaxShown)

\* run_file_search asking for a keyword before it looks at the folder.
FilePlanKeywordFirst(u, base, kw1, kw2) ==
    [NoRun EXCEPT !.handler = "run_file_search",
                  !.free = kw1, !.refine_on = u.use_filter, !.refine_text = kw2,
                  !.join = u.logic, !.files_before = u.list_files,
                  !.outcome = IF kw1 = <<>> /\ kw2 = <<>> THEN "NoKeyword"
                              ELSE IF base = <<>> THEN "NoFolder"
                              ELSE IF ~IsDir(base) THEN "FolderMissing"
                              ELSE "Ready"]

\* What run_file_search read, and how it ended before the traversal.
FilePlan(u, base, kw1, kw2) ==
    [NoRun EXCEPT !.handler = "run_file_search",
                  !.free = kw1, !.refine_on = u.use_filter, !.refine_text = kw2,
                  !.join = u.logic, !.files_before = u.list_files,
                  !.outcome = IF base = <<>> THEN "NoFolder"
                              ELSE IF ~IsDir(base) THEN "FolderMissing"
                              ELSE IF kw1 = <<>> /\ kw2 = <<>> THEN "NoKeyword"
                              ELSE "Ready"]

\* The message boxes shown on each way run_file_search ends, in order; n is
\* len(hits).
FileMessages(outcome, n) ==
    IF outcome \in {"NoFolder", "FolderMissing"} THEN <<Msg("warning", outcome)>>
    ELSE IF outcome = "NoKeyword" THEN <<Msg("info", outcome)>>
    ELSE IF outcome = "TraversalError" THEN <<Msg("critical", outcome)>>
    ELSE <<MsgN("info", outcome, n)>>

\* btn_file_search.clicked; the traversal may raise, after the list was
\* cleared.
T_RunFileSearch ==
    /\ variant = "toolbar"
    /\ ui.open /\ ~ui.timer
    /\ \E plan \in {FilePlan(ui, Strip(ui.folder), Strip(ui.free),
                             IF ui.use_filter THEN Strip(ui.filter_text) ELSE <<>>)} :
         IF plan.outcome # "Ready"
         THEN /\ msgs' = FileMessages(plan.outcome, 0)
              /\ lastRun' = plan
              /\ UNCHANGED <<ui, store>>
         ELSE \E raises \in BOOLEAN :
                IF raises
                THEN /\ msgs' = FileMessages("TraversalError", 0)
                     /\ lastRun' = [plan EXCEPT !.outcome = "TraversalError",
                                                !.executed = TRUE]
                     /\ ui' = [ui EXCEPT !.list_files = <<>>]
                     /\ UNCHANGED store
                ELSE \E tokens \in {Tokens(plan.free, plan.refine_text)},
                        exts \in {ParseExts(ui.ext)} :
                     \E hits \in {HitsIn(1, NumEntries, tokens, ui.logic = 0, exts)} :
                       /\ msgs' = FileMessages("Found", Len(hits))
                       /\ lastRun' = [plan EXCEPT !.outcome = "Found",
                                                  !.executed = TRUE, !.hits = hits]
                       /\ ui' = [ui EXCEPT !.list_files = Shown500(hits)]
                       /\ store' = SaveState(ui')
    /\ UNCHANGED <<variant, bulk, folders, present, schema, selection, activeLayer, dl>>

\* ------------------------------------------------ the user and the host act

\* The toolbar dialog takes user input: it is shown and its zero-delay timer
\* has run.
ToolbarIdle == variant = "toolbar" /\ ui.open /\ ~ui.timer

\* A handler of the toolbar dialog that shows no message ends in pair p.
ToolbarQuiet(p) ==
    /\ ui' = p.u
    /\ store' = p.st
    /\ msgs' = <<>>
    /\ lastRun' = NoRun
    /\ UNCHANGED <<variant, bulk, folders, present, schema, selection, activeLayer, dl>>

\* QTimer.singleShot(0, self.on_layer_changed)
T_Timer ==
    /\ variant = "toolbar" /\ ui.open /\ ui.timer
    /\ ToolbarQuiet(OnLayerChanged(present, Pair([ui EXCEPT !.timer = FALSE], store)))

\* The user types into edit_free.
T_EditFree ==
    /\ ToolbarIdle
    /\ \E t \in Terms : t # ui.free /\ ToolbarQuiet(SetWidget(Pair(ui, store), "free", t))

\* The user types into edit_filter.
T_EditFilter ==
    /\ ToolbarIdle /\ ui.adv_visible
    /\ \E t \in Terms :
           t # ui.filter_text /\ ToolbarQuiet(SetWidget(Pair(ui, store), "filter_text", t))

\* The user clicks chk_use_filter.
T_ToggleUseFilter ==
    /\ ToolbarIdle /\ ui.adv_visible
    /\ ToolbarQuiet(SetWidget(Pair(ui, store), "use_filter", ~ui.use_filter))

\* The user picks an entry of combo_op.
T_SetOp ==
    /\ ToolbarIdle /\ ui.adv_visible
    /\ \E i \in 0..3 : i # ui.op /\ ToolbarQuiet(SetWidget(Pair(ui, store), "op", i))

\* The user picks an entry of combo_logic.
T_SetLogic ==
    /\ ToolbarIdle /\ ui.adv_visible
    /\ \E i \in 0..1 : i # ui.logic /\ ToolbarQuiet(SetWidget(Pair(ui, store), "logic", i))

\* The user picks an entry of combo_layer.
T_PickLayer ==
    /\ ToolbarIdle
    /\ \E i \in 0..(Len(ui.layer_items) - 1) :
           i # ui.layer_idx /\ ToolbarQuiet(SetLayerIdx(Pair(ui, store), i))

\* The user picks an entry of combo_field.
T_PickField ==
    /\ ToolbarIdle /\ ui.adv_visible
    /\ \E i \in 0..(Len(ui.field_items) - 1) :
           i # ui.field_idx /\ ToolbarQuiet(SetFieldIdx(Pair(ui, store), i))

\* The user clicks toggle_adv, which is checkable: _toggle_advanced.
T_ToggleAdvanced ==
    /\ ToolbarIdle
    /\ ToolbarQuiet(Saved(SetAdvancedCollapsed(ui, ui.toggle_checked)))

\* unselect_layer, the layers' part: prev.removeSelection() for the vector
\* layer of the project that _last_layer_id names.
RemovePrevSelection(u) ==
    IF u.last_layer_id \in present \cap VectorLayers
    THEN [selection EXCEPT ![u.last_layer_id] = {}]
    ELSE selection

\* unselect_layer, the dialog's part: combo_layer goes to its first entry
\* with its signals blocked, then on_layer_changed is called.
UnselectLayer(p) ==
    OnLayerChanged(present, Pair([p.u EXCEPT !.layer_idx = 0], p.st))

\* unselect_layer ends with _clear_qgis_active_layer, which tries
\* iface.setActiveLayer(None) and passes over a failure.
ActiveLayerCleared == activeLayer' \in {activeLayer, NoLayer}

\* The user clicks btn_unselect_layer.
T_UnselectLayer ==
    /\ ToolbarIdle
    /\ selection' = RemovePrevSelection(ui)
    /\ \E p \in {UnselectLayer(Pair(ui, store))} : ui' = p.u /\ store' = p.st
    /\ ActiveLayerCleared
    /\ msgs' = <<>>
    /\ lastRun' = NoRun
    /\ UNCHANGED <<variant, bulk, folders, present, schema, dl>>

\* clear_all emptying edit_folder with the other widgets.
ClearWidgetsAndFolder(p) ==
    SetWidget(
      SetWidget(
        SetWidget(
          SetWidget(
            SetWidget(
              Pair(SetAdvancedCollapsed(SetWidget(p, "free", <<>>).u, TRUE),
                   SetWidget(p, "free", <<>>).st),
              "logic", 0),
            "use_filter", FALSE),
          "op", 0),
        "filter_text", <<>>),
      "folder", <<>>)

\* clear_all up to the call of unselect_layer: edit_free.clear(), collapsed,
\* combo_logic and combo_op at their first entry, unchecked,
\* edit_filter.clear(); each change is saved by the widget's signal.
ClearWidgets(p) ==
    SetWidget(
      SetWidget(
        SetWidget(
          SetWidget(
            Pair(SetAdvancedCollapsed(SetWidget(p, "free", <<>>).u, TRUE),
                 SetWidget(p, "free", <<>>).st),
            "logic", 0),
          "use_filter", FALSE),
        "op", 0),
      "filter_text", <<>>)

\* clear_all after unselect_layer: the table and the file list are emptied,
\* then _save_state.
ClearResults(p) ==
    Saved([p.u EXCEPT !.tbl_rows = <<>>, !.tbl_cols = 0, !.list_files = <<>>])

\* The user clicks btn_clear: clear_all, which ends with one message.
T_ClearAll ==
    /\ ToolbarIdle
    /\ selection' = RemovePrevSelection(ui)
    /\ \E p1 \in {ClearWidgets(Pair(ui, store))} :
         \E p2 \in {UnselectLayer(p1)} :
           \E p3 \in {ClearResults(p2)} : ui' = p3.u /\ store' = p3.st
    /\ ActiveLayerCleared
    /\ msgs' = <<Msg("info", "Cleared")>>
    /\ lastRun' = [NoRun EXCEPT !.handler = "clear_all",
                                !.outcome = "Cleared",
                                !.layer = ui.last_layer_id,
                                !.sel_before =
                                    IF ui.last_layer_id \in VectorLayers
                                    THEN selection[ui.last_layer_id] ELSE {},
                                !.rows_before = ui.tbl_rows,
                                !.cols_before = ui.tbl_cols,
                                !.files_before = ui.list_files]
    /\ UNCHANGED <<variant, bulk, folders, present, schema, dl>>

\* The user types into edit_folder, or picks a folder with pick_folder.
T_EditFolder ==
    /\ ToolbarIdle
    /\ \E i \in 1..Len(FolderPool) :
           /\ FolderPool[i] # ui.folder
           /\ ToolbarQuiet(SetWidget(Pair(ui, store), "folder", FolderPool[i]))

\* The user clicks btn_pick_folder and chooses one of the folders that exist:
\* pick_folder sets the text and saves.
T_PickFolder ==
    /\ ToolbarIdle
    /\ \E f \in folders :
           /\ f # ui.folder
           /\ ToolbarQuiet(Saved(SetWidget(Pair(ui, store), "folder", f).u))

\* The folder is deleted, or the memory stick that holds it is pulled.
HostRemoveFolder ==
    /\ variant = "toolbar"
    /\ \E f \in folders : folders' = folders \ {f}
    /\ msgs' = <<>>
    /\ lastRun' = NoRun
    /\ UNCHANGED <<variant, bulk, present, schema, selection, activeLayer, ui, store, dl>>

\* Numbered files are copied into the folder.
HostAddFiles ==
    /\ variant = "toolbar"
    /\ bulk < MaxBulk
    /\ bulk' = MaxBulk
    /\ msgs' = <<>>
    /\ lastRun' = NoRun
    /\ UNCHANGED <<variant, folders, present, schema, selection, activeLayer, ui, store, dl>>

\* The user types into edit_ext.
T_EditExt ==
    /\ ToolbarIdle
    /\ \E i \in 1..Len(ExtPool) :
           /\ ExtPool[i] # ui.ext
           /\ ToolbarQuiet(SetWidget(Pair(ui, store), "ext", ExtPool[i]))

\* The user clicks btn_close: the dialog is hidden, nothing is written.
T_Close ==
    /\ ToolbarIdle
    /\ ToolbarQuiet(Pair([ui EXCEPT !.open = FALSE], store))

\* open_dialog with no visible dialog: a new AddressSearchDialog is
\* constructed over the settings as they are.
T_Open ==
    /\ variant = "toolbar" /\ ~ui.open
    /\ ToolbarQuiet(Construct(store))

\* The project's layers change to layers: layersAdded or layersRemoved runs
\* refresh_layers of the toolbar dialog, shown or hidden.
HostSetLayers(layers) ==
    /\ variant = "toolbar" /\ ~ui.timer
    /\ present' = layers
    /\ \E p \in {RefreshLayers(layers, Pair(ui, store))} :
           ui' = p.u /\ store' = p.st
    /\ selection' = [l \in VectorLayers |-> IF l \in layers THEN selection[l] ELSE {}]
    /\ msgs' = <<>>
    /\ lastRun' = NoRun
    /\ UNCHANGED <<variant, bulk, folders, schema, activeLayer, dl>>

\* The host's user adds a vector layer to the project.
HostAddLayer ==
    \E l \in VectorLayers \ present : HostSetLayers(present \cup {l})

\* The host's user removes a vector layer from the project.
HostRemoveLayer ==
    \E l \in VectorLayers \cap present : HostSetLayers(present \ {l})

\* The host's user edits the fields of a vector layer; neither dialog is
\* told.
HostSetFields ==
    /\ \E l \in present \cap VectorLayers, k \in SchemaIds :
           /\ k # schema[l]
           /\ schema' = [schema EXCEPT ![l] = k]
    /\ msgs' = <<>>
    /\ lastRun' = NoRun
    /\ UNCHANGED <<variant, bulk, folders, present, selection, activeLayer, ui, store, dl>>

\* The host's user clicks a layer, or none, in the layer tree.
HostSetActiveLayer ==
    /\ variant = "dialog"
    /\ \E l \in present \cup {NoLayer} :
           /\ l # activeLayer
           /\ activeLayer' = l
    /\ msgs' = <<>>
    /\ lastRun' = NoRun
    /\ UNCHANGED <<variant, bulk, folders, present, schema, selection, ui, store, dl>>

\* A handler of the stand-alone dialog that shows no message leaves d.
DialogQuiet(d) ==
    /\ variant = "dialog"
    /\ dl' = d
    /\ msgs' = <<>>
    /\ lastRun' = NoRun
    /\ UNCHANGED <<variant, bulk, folders, present, schema, selection, activeLayer, ui, store>>

\* The user types into freeword_edit.
D_EditFreeword ==
    \E t \in Terms : t # dl.freeword /\ DialogQuiet([dl EXCEPT !.freeword = t])

\* The user clicks refine_enable; _apply_refine_enabled enables or disables
\* refine_edit and match_combo, whose text and entry stay.
D_ToggleRefine ==
    /\ variant = "dialog"
    /\ DialogQuiet([dl EXCEPT !.refine_on = ~dl.refine_on])

\* The user types into refine_edit, which is enabled.
D_EditRefine ==
    /\ dl.refine_on
    /\ \E t \in Terms : t # dl.refine_text /\ DialogQuiet([dl EXCEPT !.refine_text = t])

\* The user picks an entry of match_combo, which is enabled.
D_SetMatch ==
    /\ dl.refine_on
    /\ \E i \in 0..2 : i # dl.match /\ DialogQuiet([dl EXCEPT !.match = i])

\* The user picks an entry of join_combo.
D_SetJoin ==
    \E i \in 0..1 : i # dl.join /\ DialogQuiet([dl EXCEPT !.join = i])

\* ------------------------------------------------------------ specification

\* An empty settings group reads as the defaults of _restore_state.
DefaultStore == SaveState(BuiltUi)

\* A project with a vector layer and a raster layer, nothing selected, and
\* the dialog of one of the two modules just constructed over empty settings.
\* The dialog of one of the two modules, just constructed over empty settings
\* in a project holding layers.
Started(layers) ==
    /\ variant \in {"toolbar", "dialog"}
    /\ present = layers
    /\ schema = [l \in VectorLayers |-> 3]
    /\ selection = [l \in VectorLayers |-> {}]
    /\ activeLayer = NoLayer
    /\ bulk = 0
    /\ dl = BuiltDialog
    /\ msgs = <<>>
    /\ lastRun = NoRun
    /\ IF variant = "toolbar"
       THEN \E p \in {Construct(DefaultStore)} : ui = p.u /\ store = p.st
       ELSE /\ ui = [BuiltUi EXCEPT !.open = FALSE]
            /\ store = DefaultStore

\* A project with a vector layer and a raster layer, nothing selected.
Init ==
    /\ folders = {TheFolder}
    /\ Started({"L1", "R1"})

Next ==
    \/ T_Timer
    \/ T_ToggleAdvanced
    \/ T_EditFree
    \/ T_EditFilter
    \/ T_ToggleUseFilter
    \/ T_SetOp
    \/ T_SetLogic
    \/ T_PickLayer
    \/ T_PickField
    \/ T_RunSearch
    \/ HostSetFields
    \/ HostSetActiveLayer
    \/ D_EditFreeword
    \/ D_ToggleRefine
    \/ D_EditRefine
    \/ D_SetMatch
    \/ D_SetJoin
    \/ D_RunSearch

Spec == Init /\ [][Next]_vars

\* Every search handler of both modules, over the inputs that decide how a
\* handler ends.
NextMessages ==
    \/ T_Timer
    \/ T_ToggleAdvanced
    \/ T_EditFree
    \/ T_EditFilter
    \/ T_ToggleUseFilter
    \/ T_SetOp
    \/ T_PickLayer
    \/ T_PickFolder
    \/ HostRemoveFolder
    \/ T_RunSearch
    \/ T_RunFileSearch
    \/ HostSetFields
    \/ HostSetActiveLayer
    \/ D_EditFreeword
    \/ D_ToggleRefine
    \/ D_EditRefine
    \/ D_RunSearch

\* A project with vector layers and no folder to search, or a folder to
\* search and a project with a raster layer only.
InitMessages ==
    /\ folders \in {{}, {TheFolder}}
    /\ Started(IF folders = {} THEN {"L1", "R1"} ELSE {"R1"})

SpecMessages == InitMessages /\ [][NextMessages]_vars

\* Sessions of the toolbar dialog: the user sets what is kept, closes the
\* dialog and opens it again, while the project's layers come and go.
NextState ==
    \/ T_Timer
    \/ T_ToggleAdvanced
    \/ T_EditFree
    \/ T_EditFolder
    \/ T_EditExt
    \/ T_PickLayer
    \/ T_PickField
    \/ T_Close
    \/ T_Open
    \/ HostAddLayer
    \/ HostRemoveLayer

InitState == Init /\ variant = "toolbar"

SpecState == InitState /\ [][NextState]_vars

\* A project holding layers and a folder with n numbered files, the toolbar
\* plugin in use.
ToolbarProject(layers, n) ==
    /\ variant = "toolbar"
    /\ folders = {TheFolder}
    /\ present = layers
    /\ schema = [l \in VectorLayers |-> 3]
    /\ selection = [l \in VectorLayers |-> {}]
    /\ activeLayer = NoLayer
    /\ bulk = n
    /\ dl = BuiltDialog

\* What the user may type into edit_filter: a sign, digits, points, a letter
\* and blanks, MaxTyped characters at most.
TypedChars == {"+", "-", "5", ".", "e", " "}

TypedTexts == UNION {[1..n -> TypedChars] : n \in 0..MaxTyped}

\* The toolbar dialog after the user has picked the first layer, opened the
\* extended section and checked the refinement.
RefineOpened ==
    SetWidget(
      Saved(SetAdvancedCollapsed(
              SetLayerIdx(OnLayerChanged(present,
                                         Pair([Construct(DefaultStore).u
                                                   EXCEPT !.timer = FALSE],
                                              DefaultStore)),
                          1).u,
              FALSE)),
      "use_filter", TRUE)

\* The user has typed a text into edit_filter.
InitNumber ==
    /\ ToolbarProject({"L1", "R1"}, 0)
    /\ msgs = <<>>
    /\ lastRun = NoRun
    /\ \E base \in {RefineOpened} :
           \E t \in TypedTexts :
               \E p \in {SetWidget(base, "filter_text", t)} : ui = p.u /\ store = p.st

\* The typed text is compared under each operator.
NextNumber ==
    \/ T_SetOp
    \/ T_RunSearch

SpecNumber == InitNumber /\ [][NextNumber]_vars

\* The toolbar dialog constructed over empty settings in a project with a
\* raster layer only, beside a folder of files.
InitFiles ==
    /\ ToolbarProject({"R1"}, 0)
    /\ msgs = <<>>
    /\ lastRun = NoRun
    /\ \E p \in {Construct(DefaultStore)} : ui = p.u /\ store = p.st

\* File searches: the user picks the folder, sets the keywords, the policy and
\* the extension list, and searches, while files are added to the folder.
NextFiles ==
    \/ T_Timer
    \/ T_PickFolder
    \/ T_EditFree
    \/ T_ToggleAdvanced
    \/ T_EditFilter
    \/ T_ToggleUseFilter
    \/ T_SetLogic
    \/ T_EditExt
    \/ HostAddFiles
    \/ T_RunFileSearch

SpecFiles == InitFiles /\ [][NextFiles]_vars

\* The toolbar dialog after the user has picked the first layer and the
\* folder and has set each widget that keeps a search condition.
InitClear ==
    /\ ToolbarProject({"L1", "R1"}, 0)
    /\ msgs = <<>>
    /\ lastRun = NoRun
    /\ \E base \in {RefineOpened} :
         \E free \in Terms, filt \in Terms, op \in 0..3, logic \in 0..1,
            use \in BOOLEAN, folder \in {<<>>, TheFolder}, e \in 1..Len(ExtPool) :
           \E p1 \in {SetWidget(base, "free", free)} :
            \E p2 \in {SetWidget(p1, "filter_text", filt)} :
             \E p3 \in {SetWidget(p2, "op", op)} :
              \E p4 \in {SetWidget(p3, "logic", logic)} :
               \E p5 \in {SetWidget(p4, "use_filter", use)} :
                \E p6 \in {SetWidget(p5, "folder", folder)} :
                 \E p7 \in {SetWidget(p6, "ext", ExtPool[e])} :
                   ui = p7.u /\ store = p7.st

\* The conditions are searched with, layers are picked and unselected, and
\* everything is cleared.
NextClear ==
    \/ T_PickLayer
    \/ T_ToggleAdvanced
    \/ T_UnselectLayer
    \/ T_RunSearch
    \/ T_RunFileSearch
    \/ T_ClearAll

SpecClear == InitClear /\ [][NextClear]_vars

\* What the settings may hold when a dialog is constructed: what an earlier
\* session of the plugin saved last.
StoredPool ==
    {[DefaultStore EXCEPT !.adv_expanded = a, !.use_filter = c, !.free = t,
                          !.layer_name = n] :
         a \in BOOLEAN, c \in BOOLEAN, t \in Terms, n \in {"", LayerName("L1")}}

\* The toolbar dialog just constructed over settings of an earlier session.
InitStored ==
    /\ ToolbarProject({"L1", "R1"}, 0)
    /\ \E st \in StoredPool :
           /\ \E p \in {Construct(st)} : ui = p.u /\ store = p.st
           /\ msgs = <<>>
           /\ lastRun = [NoRun EXCEPT !.handler = "__init__",
                                      !.outcome = "Constructed",
                                      !.found = st]

\* The user works with the extended section, clears, closes the dialog and
\* opens it again.
NextStored ==
    \/ T_Timer
    \/ T_ToggleAdvanced
    \/ T_ToggleUseFilter
    \/ T_EditFilter
    \/ T_EditFree
    \/ T_PickLayer
    \/ T_PickField
    \/ T_ClearAll
    \/ T_Close
    \/ T_Open

SpecStored == InitStored /\ [][NextStored]_vars

\* ------------------------------------------------------------------- claims

RECURSIVE ScanLiterals(_, _, _, _)
\* The single-quoted literals of an expression as the query engine reads them:
\* a quote opens a literal, two quotes in a row inside it are one quote of its
\* text, one quote alone closes it.  open: the expression ends inside a literal.
ScanLiterals(s, inside, cur, lits) ==
    IF s = <<>> THEN [lits |-> lits, open |-> inside]
    ELSE IF ~inside
    THEN ScanLiterals(Tail(s), Head(s) = "'", <<>>, lits)
    ELSE IF Head(s) # "'"
    THEN ScanLiterals(Tail(s), TRUE, Append(cur, Head(s)), lits)
    ELSE IF Len(s) >= 2 /\ s[2] = "'"
    THEN ScanLiterals(Tail(Tail(s)), TRUE, Append(cur, "'"), lits)
    ELSE ScanLiterals(Tail(s), FALSE, <<>>, Append(lits, cur))

\* Every literal read from the scan sc is closed and holds as many quotes as
\* the term.
QuotesKept(sc, term) ==
    /\ ~sc.open
    /\ sc.lits # <<>>
    /\ \A i \in 1..Len(sc.lits) : Count(sc.lits[i], "'") = Count(term, "'")

\* The clause embeds the term in single-quoted literals that the term does
\* not end early.
TermKept(clause, term) == QuotesKept(ScanLiterals(clause, FALSE, <<>>, <<>>), term)

\* The refinement clause of the run embeds its term in a quoted literal: any
\* refinement clause of the stand-alone dialog; the toolbar's contains clause
\* and its equals clause for a term that is no number.
RefineQuoted(run) ==
    /\ run.expr_filter # Absent
    /\ \/ variant = "dialog"
       \/ run.op = 3
       \/ run.op = 0 /\ ~IsNumber(run.refine_text)

\* C1: in every clause a search builds that embeds a term in a single-quoted
\* literal, each quote of the term is doubled, so that the literal ends where
\* the builder ends it and holds the term's quotes.
C1_QuotesDoubled ==
    lastRun.handler = "run_search" =>
        /\ lastRun.expr_free # Absent => TermKept(lastRun.expr_free, lastRun.free)
        /\ RefineQuoted(lastRun) => TermKept(lastRun.expr_filter, lastRun.refine_text)

\* A search of the toolbar dialog that got past the layer step and the
\* free-word step with the refinement enabled, a term that is no number and
\* the comparator > or <.
ComparesText(run) ==
    /\ variant = "toolbar"
    /\ run.handler = "run_search"
    /\ run.outcome \notin {"NoLayer", "NoStringFields"}
    /\ run.refine_on
    /\ run.refine_text # <<>>
    /\ ~IsNumber(run.refine_text)
    /\ run.op \in {1, 2}

\* C2: a search of the toolbar dialog with the refinement enabled, a
\* non-empty term that is no number and the comparator > or < ends with the
\* non-numeric warning: no refinement clause, nothing submitted, no fall back
\* to the free-word clause.
C2_NonNumericWarns ==
    ComparesText(lastRun) =>
        /\ lastRun.outcome = "NonNumeric"
        /\ msgs = <<Msg("warning", "NonNumeric")>>
        /\ lastRun.expr_filter = Absent
        /\ lastRun.final = Absent
        /\ ~lastRun.executed

\* The word that joins two clauses under the join policy j of either dialog.
JoinWord(j) == IF j = 0 THEN <<"A", "N", "D">> ELSE <<"O", "R">>

\* (a AND b), (a OR b)
Grouped(a, j, b) ==
    <<"(">> \o a \o <<" ">> \o JoinWord(j) \o <<" ">> \o b \o <<")">>

\* (a) AND (b), (a) OR (b)
EachGrouped(a, j, b) ==
    <<"(">> \o a \o <<")", " ">> \o JoinWord(j) \o <<" ", "(">> \o b \o <<")">>

\* A search built the free-word clause and the refinement clause.
BothPresent(run) ==
    run.handler = "run_search" /\ run.expr_free # Absent /\ run.expr_filter # Absent

\* C3 as stated: with both clauses present the final expression of either
\* dialog is the one group (A AND B) or (A OR B).
C3_OneOuterGroup ==
    BothPresent(lastRun) =>
        lastRun.final = Grouped(lastRun.expr_free, lastRun.join, lastRun.expr_filter)

\* C3, amended: with both clauses present the final expression is (A AND B) or
\* (A OR B) in the stand-alone dialog and (A) AND (B) or (A) OR (B), with no
\* outer pair, in the toolbar dialog; the join policy decides the joining word
\* only, and A and B stand in it as they were built.
C3_GroupedPerDialog ==
    BothPresent(lastRun) =>
        lastRun.final =
            IF variant = "dialog"
            THEN Grouped(lastRun.expr_free, lastRun.join, lastRun.expr_filter)
            ELSE EachGrouped(lastRun.expr_free, lastRun.join, lastRun.expr_filter)

\* The toolbar dialog joined two clauses with OR.
C3_Witness ==
    /\ variant = "toolbar"
    /\ BothPresent(lastRun)
    /\ lastRun.join = 1
    /\ lastRun.executed

\* A search came to the combination of its clauses.
Combined(run) ==
    /\ run.handler = "run_search"
    /\ run.outcome \notin {"NoLayer", "TypeUnknown", "NotVector", "NoCriteria",
                           "NoStringFields", "NonNumeric"}

\* C4: in both dialogs and under both join policies, a clause combined with an
\* absent one is that clause, unchanged; two absent clauses give no expression,
\* and the search then ends with the no-usable-expression warning without a
\* query.
C4_AbsentIsIdentity ==
    Combined(lastRun) =>
        /\ (lastRun.expr_free # Absent /\ lastRun.expr_filter = Absent)
               => lastRun.final = lastRun.expr_free
        /\ (lastRun.expr_free = Absent /\ lastRun.expr_filter # Absent)
               => lastRun.final = lastRun.expr_filter
        /\ (lastRun.expr_free = Absent /\ lastRun.expr_filter = Absent)
               => /\ lastRun.final = Absent
                  /\ lastRun.outcome = "NoExpr"
                  /\ msgs = <<Msg("warning", "NoExpr")>>
                  /\ ~lastRun.executed

\* A search under the policy OR whose two clauses were absent.
C4_Witness ==
    /\ Combined(lastRun)
    /\ lastRun.expr_free = Absent
    /\ lastRun.expr_filter = Absent
    /\ lastRun.join = 1

\* The layer of the run has a text field by the rule of the dialog in use.
HasStringField(run) ==
    IF variant = "toolbar" THEN StringFields(run.fields) # <<>>
    ELSE QStringFields(run.fields) # <<>>

\* C5: a search submits its query only after every check has passed (a
\* vector layer is selected, there is a criterion, a free word has a text
\* field to look in, the term of an enabled > or < is a number, there is an
\* expression and it parses), and a search that fails leaves the layer's
\* selection and the results table as they were.
C5_ChecksBeforeQuery ==
    lastRun.handler = "run_search" =>
        /\ lastRun.executed =>
               /\ lastRun.layer \in present \cap VectorLayers
               /\ lastRun.free # <<>> \/ (lastRun.refine_on /\ lastRun.refine_text # <<>>)
               /\ lastRun.free # <<>> => HasStringField(lastRun)
               /\ (/\ variant = "toolbar"
                   /\ lastRun.refine_on
                   /\ lastRun.refine_text # <<>>
                   /\ lastRun.op \in {1, 2}) => IsNumber(lastRun.refine_text)
               /\ lastRun.final # Absent
               /\ lastRun.outcome # "ParseError"
        /\ lastRun.outcome \notin {"ZeroMatches", "Hits"} =>
               /\ lastRun.layer \in VectorLayers
                      => selection[lastRun.layer] = lastRun.sel_before
               /\ variant = "toolbar"
                      => /\ ui.tbl_rows = lastRun.rows_before
                         /\ ui.tbl_cols = lastRun.cols_before

\* The layer named name is a vector layer of the project.
LayerStillThere(name) ==
    name # "" /\ \E l \in present \cap VectorLayers : LayerName(l) = name

\* C6: a dialog constructed over the settings the last one saved shows the
\* saved free text, folder and extension list, selects the saved layer and
\* field when they still exist, and leaves those stored values as they were.
C6_RestoredOnOpen ==
    [][(~ui.open /\ ui'.open) =>
           /\ ui'.free = store.free
           /\ ui'.folder = store.folder
           /\ ui'.ext = store.ext
           /\ LayerStillThere(store.layer_name)
                  => CurrentLayerText(ui') = store.layer_name
           /\ (/\ LayerStillThere(store.layer_name)
               /\ store.field # <<>>
               /\ FindText(ui'.field_items, store.field) >= 0)
                  => CurrentField(ui') = store.field
           /\ store'.free = store.free
           /\ store'.folder = store.folder
           /\ store'.ext = store.ext]_vars

\* The ways a search succeeds; every other way it ends is a failure.
Successes == {"ZeroMatches", "Hits", "Found"}

\* C7: an attribute search of either dialog and a file search show exactly
\* one message when they fail and at most one when they succeed, whatever the
\* inputs and the host's answer.
C7_OneMessage ==
    lastRun.handler # "none" =>
        IF lastRun.outcome \in Successes THEN Len(msgs) <= 1 ELSE Len(msgs) = 1

\* A file search failed after its traversal began.
C7_Witness ==
    /\ lastRun.handler = "run_file_search"
    /\ lastRun.outcome = "TraversalError"
    /\ Len(msgs) = 1

\* C8: a query that matches nothing is a success: the layer's selection is
\* cleared, the results table of the toolbar dialog has no rows, the message
\* is informational, nothing is selected or zoomed to; a query that matches
\* features selects exactly those.
C8_ZeroMatchesIsSuccess ==
    lastRun.handler = "run_search" =>
        /\ (lastRun.executed /\ lastRun.outcome # "QueryError" /\ lastRun.ids = {})
               => /\ lastRun.outcome = "ZeroMatches"
                  /\ selection[lastRun.layer] = {}
                  /\ variant = "toolbar" => ui.tbl_rows = <<>>
                  /\ Len(msgs) = 1 /\ msgs[1].sev = "info"
                  /\ ~lastRun.selected
                  /\ ~lastRun.zoomed
        /\ (lastRun.executed /\ lastRun.ids # {})
               => /\ lastRun.outcome = "Hits"
                  /\ selection[lastRun.layer] = lastRun.ids

\* The toolbar dialog's query matched nothing while features were selected
\* and listed.
C8_Witness ==
    /\ variant = "toolbar"
    /\ lastRun.outcome = "ZeroMatches"
    /\ lastRun.sel_before # {}
    /\ lastRun.rows_before # <<>>

\* What the dialog in use shows in its free-word box, its refinement checkbox
\* and its refinement box.
FreeShown == IF variant = "toolbar" THEN ui.free ELSE dl.freeword

RefineChecked == IF variant = "toolbar" THEN ui.use_filter ELSE dl.refine_on

RefineShown == IF variant = "toolbar" THEN ui.filter_text ELSE dl.refine_text

\* C9: with a vector layer selected, a search whose free word is empty once
\* trimmed and whose refinement is empty or unchecked ends with the
\* no-criteria warning without a query; the text of an unchecked refinement
\* adds no clause to any search.
C9_NoCriteria ==
    (lastRun.handler = "run_search"
         /\ lastRun.outcome \notin {"NoLayer", "TypeUnknown", "NotVector"}) =>
        /\ (Strip(FreeShown) = <<>> /\ (~RefineChecked \/ Strip(RefineShown) = <<>>))
               => /\ lastRun.outcome = "NoCriteria"
                  /\ msgs = <<Msg("warning", "NoCriteria")>>
                  /\ ~lastRun.executed
        /\ ~RefineChecked => lastRun.expr_filter = Absent

\* A search with no free word and text in the unchecked refinement box.
C9_Witness ==
    /\ lastRun.handler = "run_search"
    /\ lastRun.outcome = "NoCriteria"
    /\ ~RefineChecked
    /\ Strip(RefineShown) # <<>>

\* A search came to the step that looks for text fields.
CameToFields(run) ==
    /\ run.handler = "run_search"
    /\ run.outcome \notin {"NoLayer", "TypeUnknown", "NotVector", "NoCriteria"}

\* C10 as stated: a search fails with no-searchable-fields exactly when it has
\* a free word and the layer has no text field, and then runs no query.
C10_OnlyWithFreeWord ==
    CameToFields(lastRun) =>
        /\ lastRun.outcome = "NoStringFields"
               <=> (lastRun.free # <<>> /\ ~HasStringField(lastRun))
        /\ lastRun.outcome = "NoStringFields" => ~lastRun.executed

\* C10, amended: the toolbar dialog fails with no-searchable-fields exactly
\* when it has a free word and the layer has no text field; the stand-alone
\* dialog fails with it whenever the layer has no text field, free word or
\* not; neither then runs a query.
C10_NoStringFields ==
    CameToFields(lastRun) =>
        /\ lastRun.outcome = "NoStringFields"
               <=> /\ ~HasStringField(lastRun)
                   /\ variant = "toolbar" => lastRun.free # <<>>
        /\ lastRun.outcome = "NoStringFields"
               => /\ ~lastRun.executed
                  /\ Len(msgs) = 1 /\ msgs[1].sev = "warning"

\* The stand-alone dialog failed for want of a text field with no free word.
C10_Witness ==
    /\ variant = "dialog"
    /\ lastRun.outcome = "NoStringFields"
    /\ lastRun.free = <<>>
    /\ lastRun.refine_text # <<>>

StartsWith(s, p) == Len(s) >= Len(p) /\ SubSeq(s, 1, Len(p)) = p

EndsWith(s, p) == Len(s) >= Len(p) /\ SubSeq(s, Len(s) - Len(p) + 1, Len(s)) = p

\* The clause is one parenthesized group.
OneGroup(clause) == StartsWith(clause, <<"(">>) /\ EndsWith(clause, <<")">>)

\* The parts of s between the occurrences of " OR ", which begin at cuts.
PartsBetween(s, cuts) ==
    [j \in 1..(Len(cuts) + 1) |->
        SubSeq(s, IF j = 1 THEN 1 ELSE cuts[j - 1] + 4,
                  IF j > Len(cuts) THEN Len(s) ELSE cuts[j] - 1)]

\* The parts of s cut at each " OR ".
OrParts(s) ==
    PartsBetween(s, SortedSeq({i \in 1..(Len(s) - 3) :
                                  SubSeq(s, i, i + 3) = <<" ", "O", "R", " ">>}))

\* The sub-clauses of a group: what stands between its parentheses, cut at
\* each " OR ".
SubClauses(clause) == OrParts(SubSeq(clause, 2, Len(clause) - 1))

\* The head of a sub-clause over the field name: lower("name")
OverField(name) ==
    <<"l", "o", "w", "e", "r", "(", "\"">> \o name \o <<"\"", ")">>

\* part is lower("name") LIKE lower('%...%') with some text for the dots.
ContainsOver(part, name) ==
    LET pre == OverField(name) \o <<" ", "L", "I", "K", "E", " ", "l", "o", "w", "e", "r", "(", "'", "%">>
        post == <<"%", "'", ")">>
    IN  StartsWith(part, pre) /\ EndsWith(part, post) /\ Len(part) > Len(pre) + Len(post)

\* The names of the text fields among fields, in field order, by the rule of
\* the dialog in use.
TextFieldNames(fields) ==
    LET IsText(f) == IF variant = "toolbar" THEN Lower(f.typeName) \in StringTypeNames
                     ELSE f.qtype = "String"
        kept == SelectSeq(fields, IsText)
    IN  [i \in 1..Len(kept) |-> kept[i].name]

\* parts are contains sub-clauses over the fields named names, one each and
\* in that order, and none of them is over another field of fields.
OnePerName(parts, names, fields) ==
    /\ Len(parts) = Len(names)
    /\ \A i \in 1..Len(names) : ContainsOver(parts[i], names[i])
    /\ \A i \in 1..Len(parts) :
           \A j \in 1..Len(fields) :
               StartsWith(parts[i], OverField(fields[j].name))
                   => \E k \in 1..Len(names) : names[k] = fields[j].name

\* C11: the free-word clause a search builds is one parenthesized group of
\* case-insensitive contains sub-clauses joined by OR, exactly one for each
\* text field of the layer and in field order, none of them over a field that
\* is no text field; a free word over a layer with text fields always gets
\* its clause.
C11_OnePerStringField ==
    CameToFields(lastRun) =>
        /\ (lastRun.free # <<>> /\ TextFieldNames(lastRun.fields) # <<>>)
               => lastRun.expr_free # Absent
        /\ lastRun.expr_free # Absent =>
               /\ lastRun.free # <<>>
               /\ OneGroup(lastRun.expr_free)
               /\ OnePerName(SubClauses(lastRun.expr_free),
                             TextFieldNames(lastRun.fields), lastRun.fields)

\* The toolbar dialog built the free-word clause over a layer with a numeric
\* field between two text fields.
C11_Witness ==
    /\ variant = "toolbar"
    /\ lastRun.handler = "run_search"
    /\ lastRun.expr_free # Absent
    /\ Len(lastRun.fields) = 3
    /\ Len(SubClauses(lastRun.expr_free)) = 2

\* A search of the toolbar dialog that came to the refinement step with the
\* refinement checked, a term and the comparator "=".
EqualsAsked(run) ==
    /\ variant = "toolbar"
    /\ run.handler = "run_search"
    /\ run.outcome \notin {"NoLayer", "NoCriteria", "NoStringFields"}
    /\ run.refine_on
    /\ run.refine_text # <<>>
    /\ run.op = 0

\* What stands in the clause after ("field" = and before the closing
\* parenthesis; <<"?">> when the clause does not have that shape.
ComparedTo(clause, field) ==
    LET pre == <<"(", "\"">> \o field \o <<"\"", " ", "=", " ">> IN
    IF StartsWith(clause, pre) /\ EndsWith(clause, <<")">>) /\ Len(clause) > Len(pre) + 1
    THEN SubSeq(clause, Len(pre) + 1, Len(clause) - 1)
    ELSE <<"?">>

\* value is the one single-quoted literal whose text, as the query engine
\* reads it, is term.
QuotedLiteralOf(value, term) ==
    /\ StartsWith(value, <<"'">>)
    /\ ScanLiterals(value, FALSE, <<>>, <<>>) = [lits |-> <<term>>, open |-> FALSE]

\* C12: with the comparator "=" the refinement clause of the toolbar dialog
\* compares the one chosen field, and nothing else, with the trimmed term: as
\* it is typed and unquoted when it is a number, as one single-quoted literal
\* with every quote doubled when it is not; such a search never ends with the
\* non-numeric warning.
C12_EqualsByKind ==
    EqualsAsked(lastRun) =>
        /\ lastRun.outcome # "NonNumeric"
        /\ Strip(CurrentField(ui)) # <<>> => lastRun.expr_filter # Absent
        /\ lastRun.expr_filter # Absent =>
               IF IsNumber(lastRun.refine_text)
               THEN ComparedTo(lastRun.expr_filter, Strip(CurrentField(ui)))
                        = lastRun.refine_text
               ELSE QuotedLiteralOf(ComparedTo(lastRun.expr_filter,
                                               Strip(CurrentField(ui))),
                                    lastRun.refine_text)

\* The toolbar dialog compared a field for equality with a term that holds a
\* quote and submitted the clause.
C12_Witness ==
    /\ EqualsAsked(lastRun)
    /\ lastRun.expr_filter # Absent
    /\ Count(lastRun.refine_text, "'") > 0
    /\ lastRun.executed

RECURSIVE Accepts(_, _)
\* Reading s from the state at: "start", "signed", "int" after a digit of
\* the integer part, "point" after the point, "frac" after a digit of the
\* fraction.  A number ends in "int" or "frac".
Accepts(s, at) ==
    IF s = <<>> THEN at \in {"int", "frac"}
    ELSE LET c == Head(s) IN
         IF c \in Digits
         THEN Accepts(Tail(s), IF at \in {"point", "frac"} THEN "frac" ELSE "int")
         ELSE IF c \in {"+", "-"} THEN at = "start" /\ Accepts(Tail(s), "signed")
         ELSE IF c = "." THEN at = "int" /\ Accepts(Tail(s), "point")
         ELSE FALSE

\* A search of the toolbar dialog that came to the refinement step with the
\* refinement checked, a term and a field.
RefineAsked(run) ==
    /\ variant = "toolbar"
    /\ run.handler = "run_search"
    /\ run.outcome \notin {"NoLayer", "NoCriteria", "NoStringFields"}
    /\ run.refine_on
    /\ run.refine_text # <<>>
    /\ Strip(CurrentField(ui)) # <<>>

\* C13: the number test takes exactly the texts made of an optional + or -,
\* one or more digits and, optionally, one point followed by one or more
\* digits, the whole text and nothing else, and so not the empty text; the
\* search applies it to the trimmed term: under > and < the search goes on
\* when the trimmed term passes and ends with the non-numeric warning when it
\* does not, under = the term stands unquoted when it passes and quoted when
\* it does not.
C13_NumberRule ==
    /\ ~IsNumber(<<>>)
    /\ RefineAsked(lastRun) =>
           /\ lastRun.refine_text = Strip(ui.filter_text)
           /\ lastRun.op \in {1, 2} =>
                  (lastRun.outcome = "NonNumeric"
                       <=> ~Accepts(Strip(ui.filter_text), "start"))
           /\ lastRun.op = 0 =>
                  (Count(lastRun.expr_filter, "'") = 0
                       <=> Accepts(Strip(ui.filter_text), "start"))

\* A signed number, typed after a blank and before another, was compared
\* under > and the query was run.
C13_Witness ==
    /\ RefineAsked(lastRun)
    /\ lastRun.op = 1
    /\ ui.filter_text = <<" ", "-", "5", " ">>
    /\ lastRun.executed

\* part compares the field name, lower-cased, with the one literal lit: by
\* equality under the match mode 1 (exact), by LIKE under the others.
ComparesLowered(part, name, mode, lit) ==
    /\ StartsWith(part,
                  OverField(name)
                      \o (IF mode = 1 THEN <<" ", "=", " ">>
                          ELSE <<" ", "L", "I", "K", "E", " ">>)
                      \o <<"l", "o", "w", "e", "r", "(", "'">>)
    /\ EndsWith(part, <<"'", ")">>)
    /\ ScanLiterals(part, FALSE, <<>>, <<>>) = [lits |-> <<lit>>, open |-> FALSE]

\* The text the literal of a sub-clause holds under each match mode: %term%
\* under 0 (contains), term under 1 (exact), term% under 2 (prefix).
PatternOf(mode, term) ==
    IF mode = 1 THEN term
    ELSE IF mode = 2 THEN term \o <<"%">>
    ELSE <<"%">> \o term \o <<"%">>

\* parts are sub-clauses of the match mode over names, one each, in order.
ShapedPerField(parts, names, mode, term) ==
    /\ Len(parts) = Len(names)
    /\ \A i \in 1..Len(names) :
           ComparesLowered(parts[i], names[i], mode, PatternOf(mode, term))

\* C14: the refinement clause of the stand-alone dialog is one parenthesized
\* group of sub-clauses joined by OR, one for each text field, each comparing
\* the lower-cased field with the lower-cased term: by LIKE with %term% under
\* contains, by LIKE with term% under prefix, by equality with no wildcard
\* under exact; a checked refinement with a term over a layer with text fields
\* gets its clause; no term or no field gives no clause under any mode.
C14_ShapeByMode ==
    (variant = "dialog" /\ CameToFields(lastRun)) =>
        /\ (lastRun.refine_on /\ lastRun.refine_text # <<>>
                 /\ TextFieldNames(lastRun.fields) # <<>>)
               => lastRun.expr_filter # Absent
        /\ lastRun.expr_filter # Absent =>
               /\ OneGroup(lastRun.expr_filter)
               /\ ShapedPerField(SubClauses(lastRun.expr_filter),
                                 TextFieldNames(lastRun.fields),
                                 lastRun.op, lastRun.refine_text)
        /\ \A m \in 1..Len(MatchLabels) :
               /\ BuildRefineExpr(<<>>, lastRun.refine_text, MatchLabels[m]) = Absent
               /\ BuildRefineExpr(QStringFields(lastRun.fields), <<>>, MatchLabels[m])
                      = Absent

\* The stand-alone dialog refined by prefix with a term that holds a quote
\* over two text fields, and ran the query.
C14_Witness ==
    /\ variant = "dialog"
    /\ lastRun.handler = "run_search"
    /\ lastRun.expr_filter # Absent
    /\ lastRun.op = 2
    /\ Count(lastRun.refine_text, "'") > 0
    /\ Len(SubClauses(lastRun.expr_filter)) = 2
    /\ lastRun.executed

\* A file search went through the folder to the end.
Completed(run) == run.handler = "run_file_search" /\ run.outcome = "Found"

\* The name holds the keyword kw as it is typed, capitals and all.
Holds(name, kw) == \E i \in 0..(Len(name) - Len(kw)) : SubSeq(name, i + 1, i + Len(kw)) = kw

\* The name passes the keywords: the one there is, both under AND, one of
\* the two under OR.
PassesKeywords(name, kw1, kw2, and) ==
    IF kw2 = <<>> THEN Holds(name, kw1)
    ELSE IF kw1 = <<>> THEN Holds(name, kw2)
    ELSE IF and THEN Holds(name, kw1) /\ Holds(name, kw2)
    ELSE Holds(name, kw1) \/ Holds(name, kw2)

\* The entry is a regular file whose extension the allow-list admits and
\* whose name passes the keywords.
ShouldHit(e, kw1, kw2, and, allow) ==
    /\ e.is_file
    /\ allow = {} \/ LStripDots(Lower(Suffix(e.name))) \in allow
    /\ PassesKeywords(e.name, kw1, kw2, and)

\* hits are the positions of the entries of the folder that should hit.
HitsAreTheMatches(hits, kw1, kw2, and, allow) ==
    {hits[k] : k \in 1..Len(hits)}
        = {i \in 1..NumEntries : ShouldHit(Entry(i), kw1, kw2, and, allow)}

\* C15: the hits of a file search that went through the folder are exactly
\* the regular files below it whose lower-cased extension without the dot is
\* in the extension list, or any extension when the list is empty, and whose
\* name holds the one keyword, both keywords under AND, or one of the two
\* under OR, as typed; a directory, a file with another extension and a file
\* whose name fails the keywords are no hits.
C15_HitsAreTheMatches ==
    Completed(lastRun) =>
        HitsAreTheMatches(lastRun.hits, lastRun.free, lastRun.refine_text,
                          lastRun.join = 0,
                          {ParseExts(ui.ext)[k] : k \in 1..Len(ParseExts(ui.ext))})

\* Two keywords under OR and an extension list: some files hit, the directory
\* whose name holds a keyword does not.
C15_Witness ==
    /\ Completed(lastRun)
    /\ lastRun.free # <<>>
    /\ lastRun.refine_text # <<>>
    /\ lastRun.join = 1
    /\ ParseExts(ui.ext) # <<>>
    /\ Len(lastRun.hits) > 1
    /\ \E i \in 1..NumEntries :
           /\ ~Entry(i).is_file
           /\ Holds(Entry(i).name, lastRun.refine_text)
           /\ \A k \in 1..Len(lastRun.hits) : lastRun.hits[k] # i

\* The smaller of two numbers.
Min(a, b) == IF a < b THEN a ELSE b

\* C16: after a file search that went through the folder and found n hits,
\* the file list holds the first min(n, 500) of them, in the order of the
\* traversal, and nothing else, whatever it held before; the message states
\* n, capped or not.
C16_ListCappedCountNot ==
    Completed(lastRun) =>
        /\ Len(ui.list_files) = Min(Len(lastRun.hits), 500)
        /\ \A k \in 1..Len(ui.list_files) : ui.list_files[k] = lastRun.hits[k]
        /\ \A k \in 1..(Len(lastRun.hits) - 1) : lastRun.hits[k] < lastRun.hits[k + 1]
        /\ Len(msgs) = 1
        /\ msgs[1].n = Len(lastRun.hits)

\* A search found more than 500 files while the list showed a file of an
\* earlier search that is no hit of this one.
C16_Witness ==
    /\ Completed(lastRun)
    /\ Len(lastRun.hits) > 500
    /\ msgs[1].n > 500
    /\ \E k \in 1..Len(lastRun.files_before) :
           \A j \in 1..Len(lastRun.hits) : lastRun.hits[j] # lastRun.files_before[k]

\* C17: whatever the toolbar dialog shows, clear_all leaves the folder and the
\* extension list as they were, in the dialog and in the settings, and resets
\* the rest: free text and refinement text empty, refinement unchecked,
\* operator and join policy at their first entry, extended section collapsed,
\* no layer selected in the dialog, results table and file list empty, and no
\* feature selected in the layer that was selected last in the dialog.
C17_ClearKeepsFolder ==
    [][lastRun'.handler = "clear_all" =>
           /\ ui'.folder = ui.folder
           /\ ui'.ext = ui.ext
           /\ store'.folder = store.folder
           /\ store'.ext = store.ext
           /\ ui'.free = <<>>
           /\ ui'.filter_text = <<>>
           /\ ~ui'.use_filter
           /\ ui'.op = 0
           /\ ui'.logic = 0
           /\ ~ui'.adv_visible
           /\ CurrentLayerText(ui') = ""
           /\ ui'.tbl_rows = <<>>
           /\ ui'.tbl_cols = 0
           /\ ui'.list_files = <<>>
           /\ ui.last_layer_id \in present \cap VectorLayers
                  => selection'[ui.last_layer_id] = {}
           /\ CurrentLayerText(ui) # ""
                  => ui.last_layer_id \in present \cap VectorLayers
                         /\ LayerName(ui.last_layer_id) = CurrentLayerText(ui)]_vars

\* Everything was cleared while a folder and an extension list of the user's
\* were set, features were selected and listed, and files were listed.
C17_Witness ==
    /\ lastRun.handler = "clear_all"
    /\ ui.folder = TheFolder
    /\ ui.ext # DefaultExt
    /\ ui.ext # <<>>
    /\ lastRun.sel_before # {}
    /\ lastRun.rows_before # <<>>
    /\ lastRun.files_before # <<>>
    /\ selection[lastRun.layer] = {}

\* The ways a file search ends before it goes through the folder.
Refusals == {"NoFolder", "FolderMissing", "NoKeyword"}

\* The first thing wrong with what a file search is given: the folder box
\* is empty, the folder is no directory that exists, there is no keyword.
FirstWrong(base, kw1, kw2) ==
    IF base = <<>> THEN "NoFolder"
    ELSE IF base \notin folders THEN "FolderMissing"
    ELSE IF kw1 = <<>> /\ kw2 = <<>> THEN "NoKeyword"
    ELSE "nothing"

\* C18: a file search checks, in this order, that the folder box is not
\* empty, that the folder is a directory that exists, and that there is a
\* keyword, the free word or the value of a checked refinement; it ends at
\* the first check that fails with one message that names it, goes through no
\* folder and leaves the file list as it was; when no check fails it goes on.
C18_ChecksInOrder ==
    lastRun.handler = "run_file_search" =>
        /\ lastRun.outcome \in Refusals
               <=> FirstWrong(Strip(ui.folder), Strip(ui.free),
                              IF ui.use_filter THEN Strip(ui.filter_text) ELSE <<>>)
                       # "nothing"
        /\ lastRun.outcome \in Refusals =>
               /\ lastRun.outcome
                      = FirstWrong(Strip(ui.folder), Strip(ui.free),
                                   IF ui.use_filter THEN Strip(ui.filter_text) ELSE <<>>)
               /\ Len(msgs) = 1
               /\ msgs[1].text = lastRun.outcome
               /\ ~lastRun.executed
               /\ ui.list_files = lastRun.files_before

\* A search in a folder that is gone, with no keyword and files listed: the
\* folder is what the message names.
C18_Witness ==
    /\ lastRun.handler = "run_file_search"
    /\ lastRun.outcome = "FolderMissing"
    /\ Strip(ui.free) = <<>>
    /\ ~ui.use_filter
    /\ ui.list_files # <<>>

\* C19: whatever the settings hold, the extended section expanded and the
\* refinement checked among them, the toolbar dialog ends its construction
\* with the section collapsed and the refinement unchecked, at the first
\* opening and at every later one; and from then on, in every state, the
\* toggle button is checked exactly when the section is visible.
C19_StartsCollapsed ==
    /\ [](lastRun.handler = "__init__" =>
               ~ui.adv_visible /\ ~ui.toggle_checked /\ ~ui.use_filter)
    /\ [](ui.toggle_checked <=> ui.adv_visible)
    /\ [][(~ui.open /\ ui'.open) =>
               ~ui'.adv_visible /\ ~ui'.toggle_checked /\ ~ui'.use_filter]_vars

\* A dialog just constructed over settings that held the section expanded and
\* the refinement checked.
C19_Witness ==
    /\ lastRun.handler = "__init__"
    /\ lastRun.found.adv_expanded
    /\ lastRun.found.use_filter
    /\ ui.open
    /\ ui.timer

====
